---------------------------- MODULE Spec2Model ----------------------------
(***************************************************************************)
(* DiskCleaner (src/scripts/DiskCleaner.py): the guarded removal engine.   *)
(*                                                                         *)
(* A path is a sequence of names below the filesystem root <<>>.  The      *)
(* filesystem maps every path of a bounded universe to an entry: nothing,  *)
(* a regular file with a byte size (possibly locked by another process,    *)
(* so that deleting it raises PermissionError), a directory, or a          *)
(* symbolic link with a target path.                                       *)
(***************************************************************************)
EXTENDS Integers, Sequences, FiniteSets, TLC

VARIABLES
    system,          \* platform.system()
    env,             \* os.environ: the variables that are set
    order,           \* the order in which the OS lists a directory
    dry_run,         \* self.dry_run
    protected_paths, \* self.protected_paths
    fs,              \* the filesystem
    fs0,             \* the filesystem when the cleaner was constructed
    freed_space,     \* self.freed_space
    cleaned_files,   \* self.cleaned_files
    skipped_files,   \* self.skipped_files
    pc,              \* "idle", "loop" (inside cleanup's loops), "done"
    targets,         \* cleanup(): the targets not yet taken by the outer loop
    items,           \* cleanup(): the children not yet taken by the inner loop
    result,          \* what cleanup() returned: "none", "True", "False"
    calls,           \* number of safe_remove calls made so far
    arg,             \* the path given to the most recent safe_remove call
    ret,             \* what the most recent safe_remove call returned
    event,           \* what the most recent safe_remove call logged
    external         \* has a racing process removed an entry during a call

vars == <<system, env, order, dry_run, protected_paths, fs, fs0, freed_space,
          cleaned_files, skipped_files, pc, targets, items, result, calls,
          arg, ret, event, external>>

----------------------------------------------------------------------------
(* Bounds *)

\* direct safe_remove calls made by a caller that uses the class as a library
MaxCalls == 2
\* symbolic links the OS follows in one path lookup before it fails (ELOOP)
MaxLinkHops == 2

----------------------------------------------------------------------------
(* Paths and filesystem entries *)

Universe ==
    { <<>>, <<"Windows">>, <<"home">>, <<"home", "Temp">>,
      <<"home", "Temp", "z">>,
      <<"tmp">>, <<"tmp", "a">>, <<"tmp", "d">>, <<"tmp", "d", "f">>,
      <<"tmp", ".h">>, <<"tmp", ".h", "f">>, <<"tmp", "sys">> }

None == [k |-> "none", size |-> 0, to |-> <<>>, locked |-> FALSE]
Dir == [k |-> "dir", size |-> 0, to |-> <<>>, locked |-> FALSE]
File(n) == [k |-> "file", size |-> n, to |-> <<>>, locked |-> FALSE]
Locked(n) == [k |-> "file", size |-> n, to |-> <<>>, locked |-> TRUE]
Link(t) == [k |-> "link", size |-> 0, to |-> t, locked |-> FALSE]

\* the result of a path lookup that ran into a symbolic-link loop
Fail == <<"<symlink loop>">>

Ent(f, p) == IF p \in DOMAIN f THEN f[p] ELSE None

Last(p) == p[Len(p)]
Parent(p) == SubSeq(p, 1, Len(p) - 1)

\* PurePath.parents: the strict ancestors of p
Parents(p) == { SubSeq(p, 1, i) : i \in 0 .. (Len(p) - 1) }

IsPrefix(a, b) == Len(a) <= Len(b) /\ SubSeq(b, 1, Len(a)) = a

\* name.startswith('.')
Hidden(name) == name \in {".h", ".cache"}

\* rank of a name in the two directory orders the model considers
NameRank(name) ==
    CASE name = ".h" -> 1 [] name = "Temp" -> 1 [] name = "Windows" -> 1
      [] name = "a" -> 2 [] name = "home" -> 2 [] name = "f" -> 2
      [] name = "z" -> 2
      [] name = "d" -> 3 [] name = "tmp" -> 3
      [] OTHER -> 4

Orders == {"asc", "desc"}

Comes(ord, n1, n2) ==
    IF ord = "asc" THEN NameRank(n1) <= NameRank(n2)
    ELSE NameRank(n1) >= NameRank(n2)

RECURSIVE SortPaths(_, _)
SortPaths(S, ord) ==
    IF S = {} THEN <<>>
    ELSE LET first == CHOOSE x \in S :
                          \A y \in S : Comes(ord, Last(x), Last(y))
         IN <<first>> \o SortPaths(S \ {first}, ord)

\* the entries directly inside directory c
Children(f, c) ==
    { q \in DOMAIN f : Len(q) = Len(c) + 1 /\ Parent(q) = c
                        /\ f[q].k # "none" }

\* os.scandir / os.listdir of the directory at canonical path c
ListDir(f, c, ord) == SortPaths(Children(f, c), ord)

\* the entry at loc and everything below it
Subtree(f, loc) == { q \in DOMAIN f : IsPrefix(loc, q) /\ f[q].k # "none" }

Without(f, S) == [q \in DOMAIN f |-> IF q \in S THEN None ELSE f[q]]

----------------------------------------------------------------------------
(* Path resolution *)

\* Follow the path component by component, replacing a symbolic link by
\* its target; hops counts the links followed.  A loop never ends, which
\* the fuel detects: no lookup of the universe follows as many links
\* without repeating one.
LoopFuel == 4

RECURSIVE ResolveFrom(_, _, _, _)
ResolveFrom(f, cur, rest, hops) ==
    IF rest = <<>> THEN [path |-> cur, hops |-> hops]
    ELSE LET cand == Append(cur, Head(rest))
         IN IF Ent(f, cand).k = "link"
            THEN IF hops >= LoopFuel
                 THEN [path |-> Fail, hops |-> hops]
                 ELSE ResolveFrom(f, <<>>, Ent(f, cand).to \o Tail(rest),
                                  hops + 1)
            ELSE ResolveFrom(f, cand, Tail(rest), hops)

\* Path.resolve() (non-strict): Fail stands for the RuntimeError raised
\* on a symbolic-link loop
Resolve(f, p) == ResolveFrom(f, <<>>, p, 0).path

LinkHops(f, p) == ResolveFrom(f, <<>>, p, 0).hops

\* where the entry named by p itself lives (its last component unresolved)
Loc(f, p) ==
    IF p = <<>> THEN <<>>
    ELSE LET d == Resolve(f, Parent(p))
         IN IF d = Fail THEN Fail ELSE Append(d, Last(p))

\* what stat() of p finds after following links: "file", "dir" or "none"
Kind(f, p) ==
    LET r == Resolve(f, p)
    IN IF r = Fail THEN "none"
       ELSE IF Ent(f, r).k = "link" THEN "none" ELSE Ent(f, r).k

\* Path.is_file(), Path.is_dir(), Path.exists(): a failed lookup is False
is_file(f, p) == Kind(f, p) = "file"
is_dir(f, p) == Kind(f, p) = "dir"
exists(f, p) == Kind(f, p) # "none"

\* Path.stat().st_size
st_size(f, p) == Ent(f, Resolve(f, p)).size

----------------------------------------------------------------------------
(* DiskCleaner *)

Unset == <<"<unset>">>

Getenv(e, name, default) ==
    IF name \in DOMAIN e /\ e[name] # Unset THEN e[name] ELSE default

\* get_protected_paths with the filesystem root missing from the POSIX table
get_protected_paths_NoRoot(sys, e, f) ==
    LET protected ==
          IF sys = "Windows"
          THEN { Getenv(e, "SystemRoot", <<"Windows">>),
                 Getenv(e, "ProgramFiles", <<"Program Files">>),
                 Getenv(e, "ProgramFiles(x86)", <<"Program Files (x86)">>) }
          ELSE IF sys \in {"Linux", "Darwin"}
          THEN { <<"bin">>, <<"sbin">>, <<"usr">>, <<"etc">>, <<"lib">>,
                 <<"var">>, <<"System">> }
          ELSE {}
    IN { Resolve(f, p) : p \in protected }

get_protected_paths(sys, e, f) ==
    LET protected ==
          IF sys = "Windows"
          THEN { Getenv(e, "SystemRoot", <<"Windows">>),
                 Getenv(e, "ProgramFiles", <<"Program Files">>),
                 Getenv(e, "ProgramFiles(x86)", <<"Program Files (x86)">>) }
          ELSE IF sys \in {"Linux", "Darwin"}
          THEN { <<"bin">>, <<"sbin">>, <<"usr">>, <<"etc">>, <<"lib">>,
                 <<"var">>, <<"System">>, <<>> }
          ELSE {}
    IN { Resolve(f, p) : p \in protected }

\* is_protected comparing the path as given, without resolving it
is_protected_Unresolved(f, prot, path) ==
    \E protected \in prot :
        \/ path = protected
        \/ protected \in Parents(path)

is_protected(f, prot, path) ==
    LET path_resolved == Resolve(f, path)
    IN IF path_resolved = Fail THEN TRUE
       ELSE \E protected \in prot :
               \/ path_resolved = protected
               \/ protected \in Parents(path_resolved)

\* get_directory_size: Scan runs the loop over the listed entries of a
\* directory that was reached through h symbolic links.  An entry whose
\* stat fails with ELOOP raises OSError out of entry.is_file(), which ends
\* the loop with the sum reached so far.  visits lists the canonical
\* directories the walk has listed.
Nothing == [size |-> 0, visits |-> <<>>]

RECURSIVE Scan(_, _, _, _), WalkDir(_, _, _, _)
Scan(f, ord, es, h) ==
    IF es = <<>> THEN Nothing
    ELSE LET e == Head(es)
             r == Resolve(f, e)
             h2 == h + LinkHops(f, e)
             k == Kind(f, e)
         IN IF r = Fail \/ (Ent(f, e).k = "link" /\ h2 > MaxLinkHops)
            THEN Nothing
            ELSE LET here ==
                       IF k = "file"
                       THEN [size |-> Ent(f, r).size, visits |-> <<>>]
                       ELSE IF k = "dir" /\ ~Hidden(Last(e))
                       THEN WalkDir(f, ord, r, h2)
                       ELSE Nothing
                     rest == Scan(f, ord, Tail(es), h)
                 IN [size |-> here.size + rest.size,
                     visits |-> here.visits \o rest.visits]

WalkDir(f, ord, c, h) ==
    LET s == Scan(f, ord, ListDir(f, c, ord), h)
    IN [size |-> s.size, visits |-> <<c>> \o s.visits]

Walk(f, ord, directory_path) ==
    IF is_dir(f, directory_path)
         /\ LinkHops(f, directory_path) <= MaxLinkHops
    THEN WalkDir(f, ord, Resolve(f, directory_path),
                 LinkHops(f, directory_path))
    ELSE Nothing

get_directory_size(f, ord, directory_path) == Walk(f, ord, directory_path).size


\* shutil.rmtree below a real directory: RmEntries deletes the listed
\* entries one after the other and stops at the first that cannot be
\* deleted; links are unlinked, never followed.
RECURSIVE RmEntries(_, _, _), RmDir(_, _, _)
RmEntries(f, ord, es) ==
    IF es = <<>> THEN [fs |-> f, err |-> "ok"]
    ELSE LET e == Head(es)
         IN IF f[e].k = "dir"
            THEN LET r == RmDir(f, ord, e)
                 IN IF r.err # "ok" THEN r
                    ELSE RmEntries(r.fs, ord, Tail(es))
            ELSE IF f[e].locked
            THEN [fs |-> f, err |-> "PermissionError"]
            ELSE RmEntries(Without(f, {e}), ord, Tail(es))

RmDir(f, ord, d) ==
    LET r == RmEntries(f, ord, ListDir(f, d, ord))
    IN IF r.err # "ok" THEN r
       ELSE [fs |-> Without(r.fs, {d}), err |-> "ok"]

\* shutil.rmtree(path): refuses a symbolic link
rmtree(f, ord, path) ==
    IF Ent(f, Loc(f, path)).k = "link"
    THEN [fs |-> f, err |-> "OSError"]
    ELSE RmDir(f, ord, Loc(f, path))

\* Path.unlink(): removes the file or the link itself
unlink(f, path) ==
    IF Ent(f, Loc(f, path)).locked
    THEN [fs |-> f, err |-> "PermissionError"]
    ELSE [fs |-> Without(f, {Loc(f, path)}), err |-> "ok"]

\* The moments at which a racing process may remove the entry that a
\* safe_remove call is working on: not at all, after the call found out
\* what the entry is, or after the call measured it.
Vanish == {"no", "afterKind", "afterSize"}

\* the three ways a safe_remove call ends
Counted(f, size, ev, ext) ==
    [fs |-> f, freed |-> size, cleaned |-> 1, skipped |-> 0,
     ret |-> size, event |-> ev, ext |-> ext]

Skipped(f, ev) ==
    [fs |-> f, freed |-> 0, cleaned |-> 0, skipped |-> 1,
     ret |-> 0, event |-> ev, ext |-> FALSE]

Quiet(f, ext) ==
    [fs |-> f, freed |-> 0, cleaned |-> 0, skipped |-> 0,
     ret |-> 0, event |-> "none", ext |-> ext]

\* what an exception raised by unlink or rmtree leads to
Caught(f, err) ==
    IF err = "PermissionError" THEN Skipped(f, "Permission denied")
    ELSE IF err = "FileNotFoundError" THEN Quiet(f, FALSE)
    ELSE Skipped(f, "Error processing")

\* the file branch with the counters updated only when a file is deleted
RemoveFile_PreviewNotCounted(f, ord, dry, path, vanish) ==
    LET size == st_size(f, path)
        gone == Without(f, Subtree(f, Loc(f, path)))
    IN IF vanish = "afterKind" THEN Quiet(gone, TRUE)
       ELSE IF dry
       THEN Quiet(IF vanish = "no" THEN f ELSE gone, vanish # "no")
       ELSE IF vanish = "afterSize" THEN Quiet(gone, TRUE)
       ELSE LET r == unlink(f, path)
            IN IF r.err = "ok" THEN Counted(r.fs, size, "Removed file", FALSE)
               ELSE Caught(r.fs, r.err)

\* safe_remove, the branch of a regular file
RemoveFile(f, ord, dry, path, vanish) ==
    LET size == st_size(f, path)
        gone == Without(f, Subtree(f, Loc(f, path)))
    IN IF vanish = "afterKind" THEN Quiet(gone, TRUE)
       ELSE IF dry
       THEN Counted(IF vanish = "no" THEN f ELSE gone, size,
                    "Would remove file", vanish # "no")
       ELSE IF vanish = "afterSize" THEN Quiet(gone, TRUE)
       ELSE LET r == unlink(f, path)
            IN IF r.err = "ok" THEN Counted(r.fs, size, "Removed file", FALSE)
               ELSE Caught(r.fs, r.err)

\* the directory branch without the test of dry_run
RemoveDir_AlwaysDeletes(f, ord, dry, path, vanish) ==
    LET size == IF vanish = "afterKind" THEN 0
                ELSE get_directory_size(f, ord, path)
        gone == Without(f, Subtree(f, Loc(f, path)))
    IN IF vanish # "no" THEN Quiet(gone, TRUE)
       ELSE LET r == rmtree(f, ord, path)
            IN IF r.err = "ok"
               THEN Counted(r.fs, size, "Removed directory", FALSE)
               ELSE Caught(r.fs, r.err)

\* safe_remove, the branch of a directory
RemoveDir(f, ord, dry, path, vanish) ==
    LET size == IF vanish = "afterKind" THEN 0
                ELSE get_directory_size(f, ord, path)
        gone == Without(f, Subtree(f, Loc(f, path)))
    IN IF dry
       THEN Counted(IF vanish = "no" THEN f ELSE gone, size,
                    "Would remove directory", vanish # "no")
       ELSE IF vanish # "no" THEN Quiet(gone, TRUE)
       ELSE LET r == rmtree(f, ord, path)
            IN IF r.err = "ok"
               THEN Counted(r.fs, size, "Removed directory", FALSE)
               ELSE Caught(r.fs, r.err)

\* safe_remove treating a path that is neither file nor directory as an error
safe_remove_MissingIsError(f, prot, ord, dry, path, vanish) ==
    IF is_protected(f, prot, path) THEN Skipped(f, "Skipping protected path")
    ELSE IF is_file(f, path) THEN RemoveFile(f, ord, dry, path, vanish)
    ELSE IF is_dir(f, path) THEN RemoveDir(f, ord, dry, path, vanish)
    ELSE Skipped(f, "Error processing")

safe_remove(f, prot, ord, dry, path, vanish) ==
    IF is_protected(f, prot, path) THEN Skipped(f, "Skipping protected path")
    ELSE IF is_file(f, path) THEN RemoveFile(f, ord, dry, path, vanish)
    ELSE IF is_dir(f, path) THEN RemoveDir(f, ord, dry, path, vanish)
    ELSE Quiet(f, FALSE)

get_target_paths(sys, e, f, prot) ==
    LET targets_ ==
          IF sys = "Windows"
          THEN << Getenv(e, "TEMP", <<"Windows", "Temp">>),
                  Getenv(e, "LOCALAPPDATA", <<>>) \o <<"Temp">> >>
          ELSE IF sys \in {"Linux", "Darwin"}
          THEN << <<"tmp">>, <<"var", "tmp">>, e["HOME"] \o <<".cache">> >>
          ELSE <<>>
        Safe(path) == exists(f, path) /\ ~is_protected(f, prot, path)
    IN SelectSeq(targets_, Safe)

\* cleanup(): the children of a target that the inner loop will take
TargetItems(f, ord, target) ==
    IF is_dir(f, target) /\ get_directory_size(f, ord, target) > 0
    THEN LET listed == ListDir(f, Resolve(f, target), ord)
         IN [i \in 1 .. Len(listed) |-> Append(target, Last(listed[i]))]
    ELSE <<>>

----------------------------------------------------------------------------
(* Initial states: a platform, an environment, a mode and a filesystem *)

\* an entry exists only inside a real directory
Prune(raw) ==
    [q \in Universe |->
        IF \A i \in 0 .. (Len(q) - 1) : raw[SubSeq(q, 1, i)].k = "dir"
        THEN raw[q] ELSE None]

Tree(t, a, d, f, x, h) ==
    Prune([q \in Universe |->
        CASE q = <<"tmp">> -> t
          [] q = <<"tmp", "a">> -> a
          [] q = <<"tmp", "d">> -> d
          [] q = <<"tmp", "d", "f">> -> f
          [] q = <<"tmp", ".h">> -> IF x = "hidden" THEN Dir ELSE None
          [] q = <<"tmp", ".h", "f">> -> IF x = "hidden" THEN File(1) ELSE None
          [] q = <<"tmp", "sys">> -> IF x = "sys" THEN Dir ELSE None
          [] q = <<"home", "Temp">> -> IF h = "none" THEN None ELSE Dir
          [] q = <<"home", "Temp", "z">> ->
                 IF h = "zero" THEN File(0)
                 ELSE IF h = "one" THEN File(1) ELSE None
          [] OTHER -> Dir])

\* what tmp holds besides a and d, and what the second target holds
Extras ==
    { <<"none", "none">>, <<"hidden", "none">>, <<"sys", "none">>,
      <<"none", "zero">>, <<"none", "one">> }

Trees ==
    { Tree(t, a, d, f, xh[1], xh[2]) :
        t \in {None, Dir},
        a \in {None, File(1), Locked(1), Link(<<"tmp", "a">>),
               Link(<<"tmp", "d">>)},
        d \in {None, Dir, Link(<<"Windows">>)},
        f \in {None, File(2), Link(<<"tmp">>)},
        xh \in Extras }

Environment(temp, local, root) ==
    [TEMP |-> temp, LOCALAPPDATA |-> local, SystemRoot |-> root,
     HOME |-> <<"home">>]

\* the environments of a Windows host that decide the targets and the
\* protected paths
Platforms ==
    { [system |-> "Windows",
       env |-> Environment(<<"tmp">>, <<"home">>, Unset)],
      [system |-> "Windows",
       env |-> Environment(<<"tmp">>, <<"home">>, <<"tmp", "sys">>)] }

\* a Windows host with none of the variables set, and a POSIX host
BarePlatforms ==
    { [system |-> "Windows", env |-> Environment(Unset, Unset, Unset)],
      [system |-> "Linux", env |-> Environment(Unset, Unset, Unset)] }

BareTrees ==
    { Tree(t, a, d, None, "none", "none") :
        t \in {None, Dir},
        a \in {None, File(1), Link(<<"tmp", "a">>)},
        d \in {None, Dir, Link(<<"Windows">>)} }

Init ==
    /\ \/ /\ \E pl \in Platforms : system = pl.system /\ env = pl.env
          /\ fs \in Trees
       \/ /\ \E pl \in BarePlatforms : system = pl.system /\ env = pl.env
          /\ fs \in BareTrees
    /\ order \in Orders
    /\ dry_run \in BOOLEAN
    /\ fs0 = fs
    /\ protected_paths = get_protected_paths(system, env, fs)
    /\ freed_space = 0
    /\ cleaned_files = 0
    /\ skipped_files = 0
    /\ pc = "idle"
    /\ targets = <<>>
    /\ items = <<>>
    /\ result = "none"
    /\ calls = 0
    /\ arg = <<>>
    /\ ret = 0
    /\ event = "none"
    /\ external = FALSE

----------------------------------------------------------------------------
(* Actions *)

\* a racing process can take away a real file or directory the call works on
CanVanish(path, vanish) ==
    \/ vanish = "no"
    \/ /\ ~external
       /\ ~is_protected(fs, protected_paths, path)
       /\ path \in Universe
       /\ fs[path].k \in {"file", "dir"}

\* one call safe_remove(path)
Call(path, vanish) ==
    LET o == safe_remove(fs, protected_paths, order, dry_run, path, vanish)
    IN /\ CanVanish(path, vanish)
       /\ fs' = o.fs
       /\ freed_space' = freed_space + o.freed
       /\ cleaned_files' = cleaned_files + o.cleaned
       /\ skipped_files' = skipped_files + o.skipped
       /\ ret' = o.ret
       /\ event' = o.event
       /\ external' = (external \/ o.ext)
       /\ arg' = path
       /\ calls' = calls + 1

Constant == <<system, env, order, dry_run, protected_paths, fs0>>

\* the paths a library caller hands to safe_remove
CallPaths ==
    { <<"tmp">>, <<"tmp", "a">>, <<"tmp", "d">> }

\* a caller invokes safe_remove directly (races are left to the calls
\* that cleanup makes)
SafeRemove ==
    /\ pc = "idle"
    /\ calls < MaxCalls
    /\ \E path \in CallPaths : Call(path, "no")
    /\ UNCHANGED <<Constant, pc, targets, items, result>>

\* cleanup() up to the start of its loop over the targets
CleanupStart ==
    /\ pc = "idle"
    /\ calls = 0
    /\ LET found == get_target_paths(system, env, fs, protected_paths)
       IN IF found = <<>>
          THEN /\ result' = "False"
               /\ pc' = "done"
               /\ targets' = <<>>
          ELSE /\ result' = result
               /\ pc' = "loop"
               /\ targets' = found
    /\ UNCHANGED <<Constant, fs, freed_space, cleaned_files, skipped_files,
                   items, calls, arg, ret, event, external>>

\* the outer loop takes the next target
CleanupTarget ==
    /\ pc = "loop"
    /\ items = <<>>
    /\ targets # <<>>
    /\ items' = TargetItems(fs, order, Head(targets))
    /\ targets' = Tail(targets)
    /\ UNCHANGED <<Constant, fs, freed_space, cleaned_files, skipped_files,
                   pc, result, calls, arg, ret, event, external>>

\* the inner loop takes the next child of the target
CleanupItem ==
    /\ pc = "loop"
    /\ items # <<>>
    /\ \E vanish \in Vanish : Call(Head(items), vanish)
    /\ items' = Tail(items)
    /\ UNCHANGED <<Constant, pc, targets, result>>

\* cleanup() returns after the last target
CleanupReturn ==
    /\ pc = "loop"
    /\ items = <<>>
    /\ targets = <<>>
    /\ result' = "True"
    /\ pc' = "done"
    /\ UNCHANGED <<Constant, fs, freed_space, cleaned_files, skipped_files,
                   targets, items, calls, arg, ret, event, external>>

Next ==
    \/ SafeRemove
    \/ CleanupStart
    \/ CleanupTarget
    \/ CleanupItem
    \/ CleanupReturn

Spec == Init /\ [][Next]_vars

----------------------------------------------------------------------------
(* Properties *)

\* a step that is one safe_remove call
CallStep == calls' = calls + 1

\* a step during which a racing process removed an entry
RaceStep == external' # external

\* the canonical path q is a protected path or lies below one
UnderProtected(q) == \E pp \in protected_paths : IsPrefix(pp, q)

Protected(f, p) == is_protected(f, protected_paths, p)

\* the targets cleanup() works on: it starts on the initial filesystem
Discovered ==
    LET found == get_target_paths(system, env, fs0, protected_paths)
    IN { found[i] : i \in 1 .. Len(found) }

\* the children of the discovered targets when cleanup() starts
TargetChildren ==
    UNION { Children(fs0, Resolve(fs0, t)) : t \in Discovered }

RECURSIVE SumSizes(_, _)
SumSizes(f, S) ==
    IF S = {} THEN 0
    ELSE LET q == CHOOSE x \in S : TRUE
         IN f[q].size + SumSizes(f, S \ {q})

NoDuplicates(seq) ==
    \A i, j \in 1 .. Len(seq) : i # j => seq[i] # seq[j]

FailureEvents == {"Permission denied", "Error processing"}

\* a live cleanup() has returned and no racing process interfered
LiveRunDone == pc = "done" /\ result = "True" /\ ~dry_run /\ ~external

\* C1: no safe_remove call and no live cleanup() ever deletes an entry
\* whose canonical path is a protected path or lies below one, also when
\* the call is given a non-protected ancestor of a protected path.
C1_ProtectedNeverDeleted ==
    [][ ~RaceStep =>
          \A q \in Universe :
              (fs[q].k # "none" /\ UnderProtected(q)) => fs'[q].k # "none"
      ]_vars

\* C2: is_protected(p) is true exactly when resolving p fails or the
\* resolved path is a protected path or has one as a strict ancestor; so
\* a symbolic link whose target lies under a protected path is protected.
C2_IsProtectedExact ==
    /\ \A p \in Universe :
          Protected(fs, p) <=>
              \/ Resolve(fs, p) = Fail
              \/ \E pp \in protected_paths :
                    \/ Resolve(fs, p) = pp
                    \/ /\ Len(pp) < Len(Resolve(fs, p))
                       /\ SubSeq(Resolve(fs, p), 1, Len(pp)) = pp
    /\ \A p \in Universe :
          (/\ fs[p].k = "link"
           /\ Resolve(fs, fs[p].to) # Fail
           /\ UnderProtected(Resolve(fs, fs[p].to))) => Protected(fs, p)

\* C2 witness: a call on a symbolic link into the Windows directory was
\* refused as protected.
C2_Witness ==
    /\ system = "Windows"
    /\ calls > 0
    /\ fs[arg].k = "link"
    /\ Resolve(fs, arg) = <<"Windows">>
    /\ event = "Skipping protected path"

\* C3: after a live cleanup() without interference, every child of every
\* discovered target that is neither protected nor hidden is gone and
\* every protected child is still there, whatever the target holds.
C3_LiveRunEmptiesTargets ==
    LiveRunDone =>
        \A c \in TargetChildren :
            /\ (~Protected(fs0, c) /\ ~Hidden(Last(c))) => fs[c].k = "none"
            /\ Protected(fs0, c) => fs[c].k # "none"

\* what a dry-run call on the current filesystem adds to the counters
DryOutcome(p) == safe_remove(fs, protected_paths, order, TRUE, p, "no")

\* C4: a live call adds to freed_space and cleaned_files exactly what a
\* dry-run call on the same entry adds, also when its deletion fails.
C4_DryLiveParity ==
    [][ (CallStep /\ ~dry_run /\ ~RaceStep) =>
          /\ freed_space' - freed_space = DryOutcome(arg').freed
          /\ cleaned_files' - cleaned_files = DryOutcome(arg').cleaned
      ]_vars

\* C4 as amended: a live call whose deletion succeeds adds to the counters
\* exactly what a dry-run call on the same entry adds; a live call whose
\* deletion fails adds one to skipped_files and nothing else, although the
\* dry-run call counts the entry.
C4_ParityUnlessDeletionFails ==
    [][ (CallStep /\ ~dry_run /\ ~RaceStep) =>
          \/ /\ event' \in FailureEvents
             /\ freed_space' = freed_space
             /\ cleaned_files' = cleaned_files
             /\ skipped_files' = skipped_files + 1
             /\ DryOutcome(arg').cleaned = 1
          \/ /\ event' \notin FailureEvents
             /\ freed_space' - freed_space = DryOutcome(arg').freed
             /\ cleaned_files' - cleaned_files = DryOutcome(arg').cleaned
             /\ skipped_files' - skipped_files = DryOutcome(arg').skipped
             /\ ret' = DryOutcome(arg').ret
      ]_vars

\* C4 witness: a live call removed a directory and counted its bytes.
C4_Witness ==
    /\ ~dry_run
    /\ ~external
    /\ event = "Removed directory"
    /\ ret = 2
    /\ freed_space >= 2
    /\ fs[arg].k = "none"
    /\ fs0[arg].k = "dir"

\* C5: in dry-run mode no call changes the filesystem, so a second call
\* on the same path returns and logs what the first one did.
C5_DryRunChangesNothing ==
    /\ [][ (dry_run /\ ~RaceStep) => fs' = fs ]_vars
    /\ [][ (dry_run /\ CallStep /\ calls >= 1 /\ arg' = arg /\ ~external')
             => (ret' = ret /\ event' = event) ]_vars

\* C5 witness: two dry-run calls on the directory tmp/d, which holds two
\* bytes, each reported two bytes and the directory is still there.
C5_Witness ==
    /\ dry_run
    /\ calls = 2
    /\ arg = <<"tmp", "d">>
    /\ ret = 2
    /\ cleaned_files = 2
    /\ freed_space = 4
    /\ fs[<<"tmp", "a">>] = File(1)
    /\ fs[<<"tmp", "d", "f">>] = File(2)
    /\ fs = fs0

\* C6: when the children of the discovered targets are regular files that
\* can be deleted and protected entries, a live cleanup() ends with
\* cleaned_files the number of those files, skipped_files the number of
\* protected entries and freed_space the bytes of the files; the files are
\* gone and the protected entries remain.  Only safe_remove changes the
\* counters.
C6_RunStatistics ==
    /\ [](LET files == { c \in TargetChildren : ~Protected(fs0, c) }
              kept == { c \in TargetChildren : Protected(fs0, c) }
          IN (/\ LiveRunDone
              /\ \A c \in files : fs0[c].k = "file" /\ ~fs0[c].locked)
             => /\ cleaned_files = Cardinality(files)
                /\ skipped_files = Cardinality(kept)
                /\ freed_space = SumSizes(fs0, files)
                /\ \A c \in files : fs[c].k = "none"
                /\ \A c \in kept : fs[c].k # "none")
    /\ [][ <<freed_space, cleaned_files, skipped_files>>'
             # <<freed_space, cleaned_files, skipped_files>> => CallStep
         ]_vars

FailureSeen ==
    \/ event \in FailureEvents
    \/ skipped_files
         > Cardinality({ c \in TargetChildren : Protected(fs0, c) })

\* C8: a call whose size lookup or deletion fails adds one to
\* skipped_files and nothing to the other counters; cleanup() then still
\* calls safe_remove on every child of every target and returns True.
\* cleanup() returns False only when no target was discovered.
C8_FailureContained ==
    /\ [][ (CallStep /\ event' \in FailureEvents) =>
             /\ skipped_files' = skipped_files + 1
             /\ freed_space' = freed_space
             /\ cleaned_files' = cleaned_files ]_vars
    /\ [](pc = "done" => (result = "False" <=> Discovered = {}))
    /\ []((pc = "done" /\ result = "True" /\ ~external /\ FailureSeen)
             => calls = Cardinality(TargetChildren))

\* C9: get_directory_size lists no directory more than once, also in a
\* tree whose symbolic links form a cycle: neither when safe_remove
\* measures a directory nor when cleanup() measures a target.
C9_NoDirectoryListedTwice ==
    /\ [][ (CallStep /\ ~Protected(fs, arg') /\ is_dir(fs, arg'))
             => NoDuplicates(Walk(fs, order, arg').visits) ]_vars
    /\ [][ (pc = "loop" /\ targets' # targets)
             => NoDuplicates(Walk(fs, order, Head(targets)).visits) ]_vars

\* C10: on a POSIX host every path is protected, no target is discovered,
\* cleanup() returns False without a safe_remove call, and nothing is
\* ever freed, cleaned or deleted, in both modes.
C10_PosixNothingHappens ==
    system \in {"Linux", "Darwin"} =>
        /\ \A p \in Universe : Protected(fs, p)
        /\ get_target_paths(system, env, fs, protected_paths) = <<>>
        /\ freed_space = 0
        /\ cleaned_files = 0
        /\ fs = fs0
        /\ pc # "loop"
        /\ pc = "done" => (result = "False" /\ calls = 0)

\* C10 witness: on a POSIX host with an existing /tmp that holds a file,
\* cleanup() has returned False.
C10_Witness ==
    /\ system = "Linux"
    /\ pc = "done"
    /\ result = "False"
    /\ fs[<<"tmp", "a">>] = File(1)

=============================================================================
